---- MODULE Spec2Model ----
(***************************************************************************)
(* The group_by processor of lib/processor/group_by.go together with the   *)
(* metadata processor it is documented with.  One behaviour is one engine  *)
(* (the result of NewGroupBy) serving one call of GroupBy.ProcessMessage,  *)
(* taken in the steps of its code: classification, then one step per       *)
(* iteration of the per-group processor loop, then the return.             *)
(*                                                                         *)
(* Message parts are references into a heap, so that a copied part and an  *)
(* aliased part are different things.                                      *)
(***************************************************************************)
EXTENDS Integers, Sequences, FiniteSets, TLC

\* ------------------------------------------------------------------ bounds
\* Most groups in a configuration.
MaxGroups == 2
\* Most processors in a configuration, counted over all of its groups.
MaxProcs == 2
\* Most parts in the input batch.
MaxParts == 2

\* ------------------------------------------------------------ byte strings
\* Payloads, metadata keys and metadata values are sequences of characters.
Foo == <<"f", "o", "o">>
Foo1 == <<"f", "o", "o", "1">>
Bar1 == <<"b", "a", "r", "1">>
Grouping == <<"g", "r", "o", "u", "p", "i", "n", "g">>
Example == <<"e", "x", "a", "m", "p", "l", "e">>
HostnameVar == <<"$", "{", "!", "h", "o", "s", "t", "n", "a", "m", "e", "}">>
Hostname == <<"h", "o", "s", "t">>
Touched == <<"t", "o", "u", "c", "h", "e", "d">>
Payloads == {Foo1, Bar1}

\* strings.HasPrefix
HasPrefix(s, prefix) ==
    /\ Len(prefix) <= Len(s)
    /\ SubSeq(s, 1, Len(prefix)) = prefix

\* strings.Contains / bytes.Contains
Contains(s, sub) ==
    \E k \in 0..(Len(s) - Len(sub)) : SubSeq(s, k + 1, k + Len(sub)) = sub

\* ------------------------------------------------------- parts and batches
\* A part's metadata: a map from keys to values.
EmptyMeta == [k \in {} |-> <<>>]

\* A heap cell is one message part.  src is history: the index the part had
\* in the input batch, carried along by every copy.
NewPart(data, idx) == [data |-> data, meta |-> EmptyMeta, src |-> idx]

\* Part.Copy: a new part with the same payload and a clone of the metadata.
\* The result is the heap after the allocation; the new part is its last cell.
PartCopy(h, id) == Append(h, h[id])

\* Message.Copy: a new message of copies of the parts, in order.
MessageCopy(h, m) ==
    [heap |-> h \o [k \in 1..Len(m) |-> h[m[k]]],
     msg |-> [k \in 1..Len(m) |-> Len(h) + k]]

\* message.Lock(msg, i): a view of msg that shows part i alone.
Lock(m, p) == <<m[p]>>

\* ---------------------------------------------------------------- responses
NoError == "nil"
RespNil == [kind |-> "nil", err |-> NoError]
\* response.NewAck()
RespAck == [kind |-> "ack", err |-> NoError]
\* response.NewError(err)
RespError(e) == [kind |-> "error", err |-> e]
\* Response.Error()
ResponseError(r) == r.err

\* --------------------------------------------------------------- conditions
CondStatic == [type |-> "static", static |-> TRUE, arg |-> <<>>]
CondText == [type |-> "text", static |-> FALSE, arg |-> Foo]
Conditions == {CondStatic, CondText}

\* condition.Type.Check on a locked message: static answers its constant,
\* text/contains looks for arg in the payload of the part on show.
Check(cond, h, lmsg) ==
    IF cond.type = "static"
    THEN cond.static
    ELSE Contains(h[lmsg[1]].data, cond.arg)

\* ------------------------------------------------------ metadata processor
\* NewMetadataConfig
NewMetadataConfig ==
    [Parts |-> <<>>, Operator |-> "set", Key |-> Example, Value |-> HostnameVar]

\* newMetadataSetOperator
MetadataSet(m, key, value) ==
    [k \in (DOMAIN m) \cup {key} |-> IF k = key THEN value ELSE m[k]]

\* newMetadataDeleteAllOperator
MetadataDeleteAll(m, value) ==
    [k \in {x \in DOMAIN m : FALSE} |-> m[k]]

\* newMetadataDeletePrefixOperator
MetadataDeletePrefix(m, value) ==
    [k \in {x \in DOMAIN m : ~HasPrefix(x, value)} |-> m[k]]

\* getMetadataOperator: the operators NewMetadata accepts.
MetadataOperators == {"set", "delete_all", "delete_prefix"}

\* The operator getMetadataOperator(opStr, key) returns, applied to m, value.
MetadataOperator(opStr, key, m, value) ==
    CASE opStr = "set" -> MetadataSet(m, key, value)
      [] opStr = "delete_all" -> MetadataDeleteAll(m, value)
      [] opStr = "delete_prefix" -> MetadataDeletePrefix(m, value)

\* text.ContainsFunctionVariables
ContainsFunctionVariables(v) == Contains(v, <<"$", "{", "!">>)

\* text.ReplaceFunctionVariables: the hostname variable is the one resolved.
ReplaceFunctionVariables(m, v) == IF v = HostnameVar THEN Hostname ELSE v

\* Metadata.ProcessMessage: copy the message, apply the operator to the
\* metadata of the target parts of the copy, return the copy alone.
MetadataProcessMessage(c, h, m) ==
    LET cp == MessageCopy(h, m)
        valueBytes == IF ContainsFunctionVariables(c.Value)
                      THEN ReplaceFunctionVariables(m, c.Value)
                      ELSE c.Value
        targetParts == IF Len(c.Parts) = 0
                       THEN {cp.msg[k] : k \in 1..Len(cp.msg)}
                       ELSE {cp.msg[c.Parts[k]] : k \in 1..Len(c.Parts)}
    IN  [msgs |-> <<cp.msg>>,
         res |-> RespNil,
         heap |-> [id \in 1..Len(cp.heap) |->
                     IF id \in targetParts
                     THEN [cp.heap[id] EXCEPT
                             !.meta = MetadataOperator(c.Operator, c.Key, @, valueBytes)]
                     ELSE cp.heap[id]]]

\* --------------------------------------------------- the other processors
\* The processor capability (processor.Type): ProcessMessage maps a batch to
\* zero or more batches and an optional response.  Besides metadata, one
\* processor for each thing the capability lets a processor do:
\*   expand   returns one batch per part of its input;
\*   consume  returns no batch, and an acknowledgement;
\*   shrink   returns its input without the parts whose payload lacks "foo";
\*   report   fails part-way: it has set payload and metadata of the parts it
\*            was given, in place, and returns its input with an error.
GroupingMetadataConfig ==
    [Parts |-> <<>>, Operator |-> "set", Key |-> Grouping, Value |-> Foo]

ProcessorTypes == {"metadata", "expand", "consume", "shrink", "report"}

ProcessorConfigs ==
    {[Type |-> t,
      Metadata |-> IF t = "metadata" THEN GroupingMetadataConfig ELSE NewMetadataConfig]
       : t \in ProcessorTypes}

ExpandProcessMessage(h, m) ==
    [msgs |-> [k \in 1..Len(m) |-> <<m[k]>>], res |-> RespNil, heap |-> h]

ConsumeProcessMessage(h, m) ==
    [msgs |-> <<>>, res |-> RespAck, heap |-> h]

KeepsPart(h, id) == Contains(h[id].data, Foo)

RECURSIVE KeptParts(_, _, _)
KeptParts(h, m, k) ==
    IF k > Len(m) THEN <<>>
    ELSE (IF KeepsPart(h, m[k]) THEN <<m[k]>> ELSE <<>>) \o KeptParts(h, m, k + 1)

ShrinkProcessMessage(h, m) ==
    [msgs |-> <<KeptParts(h, m, 1)>>, res |-> RespNil, heap |-> h]

ReportProcessMessage(h, m) ==
    [msgs |-> <<m>>,
     res |-> RespError("processor failed"),
     heap |-> [id \in 1..Len(h) |->
                 IF \E k \in 1..Len(m) : m[k] = id
                 THEN [h[id] EXCEPT !.data = Touched,
                                    !.meta = MetadataSet(@, Touched, Foo)]
                 ELSE h[id]]]

\* Processors[j].ProcessMessage(m), by the processor's type.
ProcessorProcessMessage(proc, h, m) ==
    CASE proc.Type = "metadata" -> MetadataProcessMessage(proc.Metadata, h, m)
      [] proc.Type = "expand" -> ExpandProcessMessage(h, m)
      [] proc.Type = "consume" -> ConsumeProcessMessage(h, m)
      [] proc.Type = "shrink" -> ShrinkProcessMessage(h, m)
      [] proc.Type = "report" -> ReportProcessMessage(h, m)

\* ------------------------------------------------------------ construction
RECURSIVE SumTo(_, _)
SumTo(f, n) == IF n = 0 THEN 0 ELSE f[n] + SumTo(f, n - 1)

\* NewGroupBy: groups[i] gets the condition and the processors of conf.GroupBy[i],
\* in order.  lens[i] is the number of processors of group i, flat their
\* configurations, group after group.
NewGroupBy(conds, lens, flat) ==
    [g \in 1..Len(conds) |->
       [Condition |-> conds[g],
        Processors |-> SubSeq(flat, SumTo(lens, g - 1) + 1, SumTo(lens, g))]]

\* The numbers of processors per group that add up to t.
ProcessorCounts(n, t) == {l \in [1..n -> 0..t] : SumTo(l, n) = t}

\* ------------------------------------------------------------------- state
VARIABLES
    engine,      \* g.groups: the groups of the GroupBy, in configured order
    stats,       \* the counters mCount, mDropped, mSent, mSentParts,
                 \* mGroupDefault and mGroupPass
    heap,        \* the message parts that exist
    pc,          \* where the call of ProcessMessage stands
    msg,         \* the batch ProcessMessage was called with
    groups,      \* the working batch of each group
    groupless,   \* the batch of the parts no group took
    msgs,        \* the batches collected for the result
    i,           \* the group the processor loop is at
    j,           \* the processor the loop is at
    resultMsgs,  \* the working set of the group's chain
    res,         \* the response of the latest ProcessMessage of a processor
    logged,      \* the errors passed to g.log.Errorf
    ret,         \* what ProcessMessage returned
    orig,        \* history: the cells of the input parts when the call began
    checks,      \* history: the calls of Condition.Check, as <<part, group>>
    applied      \* history: the calls of a processor's ProcessMessage

vars == <<engine, stats, heap, pc, msg, groups, groupless, msgs, i, j,
          resultMsgs, res, logged, ret, orig, checks, applied>>

NoReturn == [msgs |-> <<>>, res |-> RespNil]

\* The engine is any that NewGroupBy builds within the bounds; nothing has
\* been processed.
Init ==
    /\ \E n \in 0..MaxGroups : \E t \in 0..MaxProcs :
         \E conds \in [1..n -> Conditions] :
           \E lens \in ProcessorCounts(n, t) :
             \E flat \in [1..t -> ProcessorConfigs] :
               engine = NewGroupBy(conds, lens, flat)
    /\ stats = [mCount |-> 0, mDropped |-> 0, mSent |-> 0, mSentParts |-> 0,
                mGroupDefault |-> 0,
                mGroupPass |-> [g \in 1..Len(engine) |-> 0]]
    /\ heap = <<>>
    /\ pc = "idle"
    /\ msg = <<>>
    /\ groups = <<>>
    /\ groupless = <<>>
    /\ msgs = <<>>
    /\ i = 0
    /\ j = 0
    /\ resultMsgs = <<>>
    /\ res = RespNil
    /\ logged = <<>>
    /\ ret = NoReturn
    /\ orig = <<>>
    /\ checks = <<>>
    /\ applied = <<>>

\* ---------------------------------------------------------- classification
\* Variant: the part itself is appended, not a copy of it.
AliasedPart(h, id) == [heap |-> h, id |-> id]

\* groups[j].Append(p.Copy()) and groupless.Append(p.Copy()): the part that
\* is appended, and the heap that holds it.
CopiedPart(h, id) == [heap |-> PartCopy(h, id), id |-> Len(h) + 1]

\* Variant: the part is put in front.
MessagePrepend(m, id) == <<id>> \o m

\* Message.Append
MessageAppend(m, id) == Append(m, id)

\* Variant: no return after a condition passed, so the loop over the groups
\* goes on and the part reaches groupless as well.
RECURSIVE IterPartNoReturn(_, _, _)
IterPartNoReturn(st, p, k) ==
    IF k > Len(engine)
    THEN LET c == CopiedPart(st.heap, msg'[p])
         IN  [st EXCEPT !.heap = c.heap,
                        !.groupless = MessageAppend(@, c.id),
                        !.mGroupDefault = @ + 1]
    ELSE LET seen == [st EXCEPT !.checks = Append(@, <<p, k>>)]
         IN  IF Check(engine[k].Condition, st.heap, Lock(msg', p))
             THEN LET c == CopiedPart(st.heap, msg'[p])
                  IN  IterPartNoReturn(
                        [seen EXCEPT !.heap = c.heap,
                                     !.groups[k] = MessageAppend(@, c.id),
                                     !.mGroupPass[k] = @ + 1], p, k + 1)
             ELSE IterPartNoReturn(seen, p, k + 1)

\* Variant: the last group whose condition passes takes the part.
RECURSIVE IterPartLastMatch(_, _, _)
IterPartLastMatch(st, p, k) ==
    IF k > Len(engine)
    THEN LET c == CopiedPart(st.heap, msg'[p])
         IN  [st EXCEPT !.heap = c.heap,
                        !.groupless = MessageAppend(@, c.id),
                        !.mGroupDefault = @ + 1]
    ELSE LET seen == [st EXCEPT !.checks = Append(@, <<p, k>>)]
             later == \E l \in (k + 1)..Len(engine) :
                        Check(engine[l].Condition, st.heap, Lock(msg', p))
         IN  IF ~later /\ Check(engine[k].Condition, st.heap, Lock(msg', p))
             THEN LET c == CopiedPart(st.heap, msg'[p])
                  IN  [seen EXCEPT !.heap = c.heap,
                                   !.groups[k] = MessageAppend(@, c.id),
                                   !.mGroupPass[k] = @ + 1]
             ELSE IterPartLastMatch(seen, p, k + 1)

\* The body of the function given to msg.Iter, for part p, from group k on:
\* the part goes to the first group whose condition passes, and to groupless
\* when the loop over the groups ends without one.  st is the call's state.
RECURSIVE IterPart(_, _, _)
IterPart(st, p, k) ==
    IF k > Len(engine)
    THEN LET c == CopiedPart(st.heap, msg'[p])
         IN  [st EXCEPT !.heap = c.heap,
                        !.groupless = MessageAppend(@, c.id),
                        !.mGroupDefault = @ + 1]
    ELSE LET seen == [st EXCEPT !.checks = Append(@, <<p, k>>)]
         IN  IF Check(engine[k].Condition, st.heap, Lock(msg', p))
             THEN LET c == CopiedPart(st.heap, msg'[p])
                  IN  [seen EXCEPT !.heap = c.heap,
                                   !.groups[k] = MessageAppend(@, c.id),
                                   !.mGroupPass[k] = @ + 1]
             ELSE IterPart(seen, p, k + 1)

\* msg.Iter: the parts in order.
RECURSIVE MessageIter(_, _)
MessageIter(st, p) ==
    IF p > Len(msg') THEN st ELSE MessageIter(IterPart(st, p, 1), p + 1)

\* Variant: the batch without parts is forwarded.
EmptyForwarded == [msgs |-> <<<<>>>>, res |-> RespNil]

\* The result of ProcessMessage on a batch without parts.
EmptyResult == [msgs |-> <<>>, res |-> RespAck]

\* ProcessMessage is called with a batch of the parts `input`: it returns at
\* once when the batch has no part, and sorts the parts into the working
\* batches otherwise.
Start(input) ==
    /\ pc = "idle"
    /\ msg' = [k \in 1..Len(input) |-> k]
    /\ orig' = [k \in 1..Len(input) |-> NewPart(input[k], k)]
    /\ IF Len(input) = 0
       THEN /\ stats' = [stats EXCEPT !.mCount = @ + 1, !.mDropped = @ + 1]
            /\ ret' = EmptyResult
            /\ pc' = "done"
            /\ heap' = orig'
            /\ UNCHANGED <<groups, groupless, checks, i>>
       ELSE LET st == MessageIter(
                        [heap |-> orig',
                         groups |-> [g \in 1..Len(engine) |-> <<>>],
                         groupless |-> <<>>,
                         mGroupPass |-> stats.mGroupPass,
                         mGroupDefault |-> stats.mGroupDefault,
                         checks |-> <<>>], 1)
            IN  /\ heap' = st.heap
                /\ groups' = st.groups
                /\ groupless' = st.groupless
                /\ checks' = st.checks
                /\ stats' = [stats EXCEPT !.mCount = @ + 1,
                                          !.mGroupPass = st.mGroupPass,
                                          !.mGroupDefault = st.mGroupDefault]
                /\ i' = 1
                /\ pc' = "groups"
                /\ UNCHANGED ret
    /\ UNCHANGED <<engine, msgs, j, resultMsgs, res, logged, applied>>

\* ------------------------------------------------------- the group's chain
\* The group the loop over groups stops at from group k on: the first one
\* whose working batch has parts (the others are passed over by `continue`),
\* Len(groups) + 1 when none is left.
RECURSIVE NextWithParts(_)
NextWithParts(k) ==
    IF k > Len(groups) \/ Len(groups[k]) > 0 THEN k ELSE NextWithParts(k + 1)

\* The loop over groups goes on from group i to the next group with parts,
\* whose chain starts from its working batch alone.
NextGroup ==
    /\ pc = "groups"
    /\ NextWithParts(i) <= Len(groups)
    /\ i' = NextWithParts(i)
    /\ resultMsgs' = <<groups[i']>>
    /\ res' = RespNil
    /\ j' = 1
    /\ pc' = "chain"
    /\ UNCHANGED <<engine, stats, heap, msg, groups, groupless, msgs, logged,
                   ret, orig, checks, applied>>

\* Variant: nextResultMsgs = rMsgs
Overwritten(next, rMsgs) == rMsgs

\* nextResultMsgs = append(nextResultMsgs, rMsgs...)
Collected(next, rMsgs) == next \o rMsgs

\* The loop over resultMsgs for processor j of group i, from batch k on.
\* acc holds nextResultMsgs, res, the heap and the history of calls.
RECURSIVE ApplyProcessor(_, _, _)
ApplyProcessor(ms, k, acc) ==
    IF k > Len(ms) THEN acc
    ELSE LET r == ProcessorProcessMessage(engine[i].Processors[j], acc.heap, ms[k])
         IN  ApplyProcessor(ms, k + 1,
               [next |-> Collected(acc.next, r.msgs),
                res |-> r.res,
                heap |-> r.heap,
                applied |-> Append(acc.applied,
                                   [group |-> i, proc |-> j, in |-> ms[k],
                                    out |-> r.msgs, res |-> r.res])])

\* Variant: an error in res ends the chain.
ChainStopsOnError ==
    /\ Len(resultMsgs) > 0
    /\ j <= Len(engine[i].Processors)
    /\ ResponseError(res) = NoError

\* len(resultMsgs) > 0 && j < len(g.groups[i].Processors)
ChainContinues == Len(resultMsgs) > 0 /\ j <= Len(engine[i].Processors)

\* One iteration of the loop over the processors of group i.
RunProcessor ==
    /\ pc = "chain"
    /\ ChainContinues
    /\ LET acc == ApplyProcessor(resultMsgs, 1,
                    [next |-> <<>>, res |-> res, heap |-> heap, applied |-> applied])
       IN  /\ resultMsgs' = acc.next
           /\ res' = acc.res
           /\ heap' = acc.heap
           /\ applied' = acc.applied
    /\ j' = j + 1
    /\ UNCHANGED <<engine, stats, msg, pc, groups, groupless, msgs, i, logged,
                   ret, orig, checks>>

\* msgs = append(msgs, resultMsgs...)
GroupOutput(out, rs) == IF Len(rs) > 0 THEN out \o rs ELSE out

\* The errors g.log.Errorf is called with once the chain of a group is over.
GroupErrors(r) ==
    IF r # RespNil /\ ResponseError(r) # NoError THEN <<ResponseError(r)>> ELSE <<>>

\* The chain of group i is over: its batches are collected and the response
\* in res is looked at for an error to log.
EndGroup ==
    /\ pc = "chain"
    /\ ~ChainContinues
    /\ msgs' = GroupOutput(msgs, resultMsgs)
    /\ logged' = logged \o GroupErrors(res)
    /\ i' = i + 1
    /\ pc' = "groups"
    /\ UNCHANGED <<engine, stats, heap, msg, groups, groupless, j, resultMsgs,
                   res, ret, orig, checks, applied>>

\* --------------------------------------------------------------- the return
\* Variant: groupless goes in front.
GrouplessFirst(out, gl) == IF Len(gl) > 0 THEN <<gl>> \o out ELSE out

\* msgs with groupless behind it when groupless has parts.
WithGroupless(out, gl) == IF Len(gl) > 0 THEN Append(out, gl) ELSE out

\* The return value for the collected batches.
Result(out) ==
    IF Len(out) = 0 THEN [msgs |-> <<>>, res |-> RespAck]
    ELSE [msgs |-> out, res |-> RespNil]

RECURSIVE PartsIn(_, _)
PartsIn(out, n) == IF n = 0 THEN 0 ELSE Len(out[n]) + PartsIn(out, n - 1)

\* Every group has been seen: groupless is collected and ProcessMessage returns.
Return ==
    /\ pc = "groups"
    /\ NextWithParts(i) > Len(groups)
    /\ msgs' = WithGroupless(msgs, groupless)
    /\ ret' = Result(msgs')
    /\ stats' = IF Len(msgs') = 0
                THEN [stats EXCEPT !.mDropped = @ + 1]
                ELSE [stats EXCEPT !.mSent = @ + Len(msgs'),
                                   !.mSentParts = @ + PartsIn(msgs', Len(msgs'))]
    /\ pc' = "done"
    /\ UNCHANGED <<engine, heap, msg, groups, groupless, i, j, resultMsgs, res,
                   logged, orig, checks, applied>>

\* The batches ProcessMessage may be called with.
Inputs == UNION {[1..n -> Payloads] : n \in 0..MaxParts}

\* ProcessMessage is called, once, with any of them.
Call ==
    /\ pc = "idle"
    /\ \E input \in Inputs : Start(input)

Next ==
    \/ Call
    \/ NextGroup
    \/ RunProcessor
    \/ EndGroup
    \/ Return

Spec == Init /\ [][Next]_vars

\* ============================================================== properties
Classified == pc \in {"groups", "chain", "done"} /\ Len(msg) > 0

\* Destination d: group d's working batch, or groupless for d = 0.
Destination(d) == IF d = 0 THEN groupless ELSE groups[d]

\* The input indexes of the parts of a batch.
Sources(b) == [k \in 1..Len(b) |-> heap[b[k]].src]

\* Whether the condition of group k holds of input part p.
Passes(k, p) == Check(engine[k].Condition, orig, <<p>>)

\* The group input part p belongs to: the least one whose condition holds,
\* 0 when none does.
FirstMatch(p) ==
    LET passing == {k \in 1..Len(engine) : Passes(k, p)}
    IN  IF passing = {} THEN 0 ELSE CHOOSE k \in passing : \A l \in passing : k <= l

\* The destinations that hold a copy of input part p.
Holders(p) ==
    {d \in 0..Len(groups) :
       \E k \in 1..Len(Destination(d)) : heap[Destination(d)[k]].src = p}

RECURSIVE Flatten(_)
Flatten(ss) == IF Len(ss) = 0 THEN <<>> ELSE Head(ss) \o Flatten(Tail(ss))

\* The calls of processor s of group g, in the order made.
AppsOf(g, s) == SelectSeq(applied, LAMBDA a : a.group = g /\ a.proc = s)
Ins(apps) == [k \in 1..Len(apps) |-> apps[k].in]
Outs(apps) == Flatten([k \in 1..Len(apps) |-> apps[k].out])

\* The last processor of group g that was called, 0 when none was.
LastRun(g) ==
    LET ran == {s \in 1..Len(engine[g].Processors) : Len(AppsOf(g, s)) > 0}
    IN  IF ran = {} THEN 0 ELSE CHOOSE s \in ran : \A t \in ran : t <= s

\* What the chain of group g produced.
ChainProduct(g) ==
    IF Len(groups[g]) = 0 THEN <<>>
    ELSE IF LastRun(g) = 0 THEN <<groups[g]>>
    ELSE Outs(AppsOf(g, LastRun(g)))

ErrorApps == SelectSeq(applied, LAMBDA a : a.res.kind = "error")

\* C1: after classification the working batches and groupless hold as many
\* parts as the input batch, and every input part is in exactly one of them.
C1_Conservation ==
    Classified =>
      /\ SumTo([g \in 1..Len(groups) |-> Len(groups[g])], Len(groups))
           + Len(groupless) = Len(msg)
      /\ \A p \in 1..Len(msg) :
           /\ Cardinality(Holders(p)) = 1
           /\ \A d \in Holders(p) :
                Cardinality({k \in 1..Len(Destination(d)) :
                               heap[Destination(d)[k]].src = p}) = 1

C1_Witness ==
    /\ pc = "groups"
    /\ Len(msg) = 2
    /\ Len(groups) = 2
    /\ Len(groups[1]) = 1
    /\ Len(groupless) = 1

\* C2: a part is in group d exactly when d is the first group whose condition
\* holds of it, and in groupless exactly when no condition holds of it.
C2_FirstMatchWins ==
    Classified => \A p \in 1..Len(msg) : Holders(p) = {FirstMatch(p)}

C2_Witness ==
    /\ pc = "groups"
    /\ Len(engine) = 2
    /\ \E p \in 1..Len(msg) :
         /\ Passes(1, p)
         /\ Passes(2, p)
         /\ Sources(groups[1]) = <<p>>
    /\ Len(groupless) = 1

\* C3: the result is, group after group in configured order, what each
\* group's chain produced, then groupless when it has parts; no processor
\* was called with a part of groupless, whose parts are the unmatched input
\* parts as they were.
C3_OutputOrder ==
    (pc = "done" /\ Len(msg) > 0) =>
      /\ ret.msgs = Flatten([g \in 1..Len(groups) |-> ChainProduct(g)])
                      \o (IF Len(groupless) > 0 THEN <<groupless>> ELSE <<>>)
      /\ \A n \in 1..Len(applied) : \A k \in 1..Len(applied[n].in) :
           \A l \in 1..Len(groupless) : applied[n].in[k] # groupless[l]
      /\ [k \in 1..Len(groupless) |-> heap[groupless[k]]]
           = SelectSeq(orig, LAMBDA c : FirstMatch(c.src) = 0)

C3_Witness ==
    /\ pc = "done"
    /\ Len(groupless) = 1
    /\ Len(ret.msgs) = 2
    /\ applied # <<>>

\* C4: no batch of the result is without parts.
C4_NoEmptyBatchReturned ==
    pc = "done" => \A k \in 1..Len(ret.msgs) : Len(ret.msgs[k]) > 0

\* C5: whatever the processors report, the result is batches and no response
\* or no batch and an acknowledgement; the batches of a call that reported an
\* error go to the next processor of the group, or into the result after the
\* last one; groupless is returned all the same.
C5_ErrorsNotFatal ==
    pc = "done" =>
      /\ \/ Len(ret.msgs) > 0 /\ ret.res = RespNil
         \/ Len(ret.msgs) = 0 /\ ret.res = RespAck
      /\ \A n \in 1..Len(ErrorApps) :
           LET a == ErrorApps[n]
           IN  \A b \in 1..Len(a.out) :
                 IF a.proc < Len(engine[a.group].Processors)
                 THEN \E m \in 1..Len(applied) :
                        /\ applied[m].group = a.group
                        /\ applied[m].proc = a.proc + 1
                        /\ applied[m].in = a.out[b]
                 ELSE \E k \in 1..Len(ret.msgs) : ret.msgs[k] = a.out[b]
      /\ (ErrorApps # <<>> /\ Len(groupless) > 0) =>
           ret.msgs[Len(ret.msgs)] = groupless

C5_Witness ==
    /\ pc = "done"
    /\ Len(ErrorApps) = 1
    /\ ErrorApps[1].proc = 1
    /\ Len(engine[ErrorApps[1].group].Processors) = 2
    /\ Len(applied) = 2
    /\ Len(groupless) = 1
    /\ Len(ret.msgs) = 2

\* C6: a batch without parts gets no batch and an acknowledgement, with no
\* condition checked and no processor called.
C6_EmptyInputDropped ==
    (pc = "done" /\ Len(msg) = 0) =>
      /\ ret = [msgs |-> <<>>, res |-> RespAck]
      /\ checks = <<>>
      /\ applied = <<>>

C6_Witness ==
    /\ pc = "done"
    /\ Len(msg) = 0
    /\ Len(engine) = 2
    /\ Len(engine[1].Processors) = 1

\* C7: the parts of a working batch, and of groupless, are in the order they
\* had in the input batch.
C7_OrderPreserved ==
    Classified =>
      \A d \in 0..Len(groups) :
        \A a, b \in 1..Len(Destination(d)) :
          a < b => Sources(Destination(d))[a] < Sources(Destination(d))[b]

C7_Witness ==
    /\ pc = "groups"
    /\ Len(engine) = 2
    /\ Sources(groups[2]) = <<1, 2>>

\* C8: the parts of the input batch stay as they were, and so do the parts of
\* groupless and of the groups whose chain has not run, whatever the
\* processors of the other groups do to the parts they are given.
C8_InputUnchanged ==
    Classified =>
      /\ \A p \in 1..Len(msg) : heap[msg[p]] = orig[p]
      /\ \A d \in 0..Len(groups) :
           (d = 0 \/ d > i \/ (d = i /\ pc = "groups")) =>
             \A k \in 1..Len(Destination(d)) :
               heap[Destination(d)[k]] = orig[Sources(Destination(d))[k]]

C8_Witness ==
    /\ pc = "done"
    /\ Len(groupless) = 1
    /\ \E n \in 1..Len(applied) :
         /\ engine[applied[n].group].Processors[applied[n].proc].Type = "report"
         /\ heap[applied[n].in[1]].data = Touched

\* C9: the chain of a group is a fold: the first processor is called with the
\* working batch alone, each later one with the batches the one before it
\* returned, one by one in order, a processor is called exactly when batches
\* are left for it, and the working set is what the latest one returned.
C9_ChainIsFold ==
    /\ \A g \in 1..Len(groups) : \A s \in 1..Len(engine[g].Processors) :
         LET fed == IF s = 1 THEN <<groups[g]>> ELSE Outs(AppsOf(g, s - 1))
             started == g < i \/ (g = i /\ pc = "chain" /\ s < j) \/ pc = "done"
         IN  /\ Len(AppsOf(g, s)) > 0 => Ins(AppsOf(g, s)) = fed
             /\ (started /\ Len(groups[g]) > 0 /\ (s = 1 \/ Len(AppsOf(g, s - 1)) > 0))
                  => Ins(AppsOf(g, s)) = fed
             /\ (s > 1 /\ Len(AppsOf(g, s - 1)) = 0) => Len(AppsOf(g, s)) = 0
    /\ pc = "chain" => resultMsgs = ChainProduct(i)

C9_Witness ==
    /\ pc = "done"
    /\ \E n \in 1..Len(applied) :
         /\ Len(applied[n].out) = 2
         /\ applied[n].proc = 2
         /\ ret.msgs = applied[n].out

\* C10: every error a processor reported was passed to the log.
C10_EveryErrorLogged ==
    pc = "done" => Len(logged) = Len(ErrorApps)

====
